---------------------------- MODULE Spec2Model ----------------------------
(* are-we-there-yet: the deployment convergence monitor of src/main.go.     *)
(* The file holds two program variants; the model follows the second one    *)
(* (lines 328-716: primary-deployment tracking and the target-group check), *)
(* from the creation of the AWS session in main onwards.                    *)
(*                                                                          *)
(* Time is counted in seconds.  The control plane is the environment: every *)
(* DescribeServices / DescribeTargetHealth call returns any response of a   *)
(* bounded set and takes any duration of CallDelays.  A step of the model   *)
(* is one handler of the program: a pre-flight call, a phase entry, one     *)
(* case of a select statement, or the blocking of a select until one of     *)
(* its tickers fires.                                                       *)
(*                                                                          *)
(* The actions take the sets of responses the control plane may give, so    *)
(* that the same program runs in several environments: Spec (one deployment *)
(* per snapshot), SpecRollout (two deployments per snapshot), SpecTargets   *)
(* (two load balancers), SpecPoll (one rollout) and FairSpec (SpecPoll with *)
(* the scheduling of select).  SpecV1 is the first variant (lines 1-326),   *)
(* from the start of main to the return of its checkDeployments.            *)
EXTENDS Integers, Sequences, FiniteSets

VARIABLES
    pc,                \* position of main
    flagCheckInterval, \* -check, seconds
    flagTimeout,       \* -timeout, minutes
    flagVerbose,       \* -V
    currentOutput,     \* sh.currentOutput, the cached service snapshot
    deploymentId,      \* the id waitForDeployment tracks (kept until main's next call)
    checkTimer,        \* the tick ticker of the running poll loop
    timeout,           \* the timeout ticker of the running poll loop
    elapsed,           \* seconds since the running poll loop created its tickers (saturating)
    phaseA,            \* checkDeployments:  "notStarted", "waiting", "ok", "failed"
    phaseB,            \* checkPendingCount of the current main-loop iteration
    phaseC,            \* checkTargetGroup of the current main-loop iteration
    observed,          \* the counts on which the last count check returned nil
    err,               \* the error a phase returned to main ("" = none)
    exitCode,          \* -1 while running, else the process exit code
    ranged,            \* first variant: the range loop of checkDeployments
    run,               \* the first MaxRun handlers that ran, with the seconds each took
    last               \* the handler that ran last and what it did

vars == <<pc, flagCheckInterval, flagTimeout, flagVerbose, currentOutput,
          deploymentId, checkTimer, timeout, elapsed, phaseA, phaseB, phaseC,
          observed, err, exitCode, ranged, run, last>>

-----------------------------------------------------------------------------
(* Bounds of the environment *)

MaxTargets == 1          \* targets per target group
MaxElapsed == 660        \* elapsed saturates here
MaxEvents == 11          \* events of the snapshot the diagnostics fetch
MaxTasks == 6            \* STOPPED tasks ListTasks returns
MaxRun == 8              \* handlers kept in run

DeploymentIds == {"d1", "d2"}
Statuses == {"PRIMARY", "ACTIVE"}
RolloutStates == {"IN_PROGRESS", "COMPLETED", "FAILED"}
TargetStates == {"healthy", "unhealthy"}
DesiredCounts == {2}
RunningCounts == {1, 2}
CallDelays == {0}                 \* seconds a control-plane call takes (calls return at once)
\* Command lines: -check seconds, -timeout minutes, -V (the defaults
\* and another)
Options == {[check |-> 10, timeout |-> 10, verbose |-> FALSE],
            [check |-> 30, timeout |-> 11, verbose |-> TRUE]}

(* Program constants *)
CheckTimerSeconds == 10  \* time.NewTicker(time.Second * 10)
TimeoutMinutes == 10     \* time.NewTicker(time.Minute * 10)
GraceSeconds == 15       \* time.Sleep(time.Second * 15)
ExitFailure == 1         \* exitOut(ecsService, 1), os.Exit(1)
EventsRequested == 10    \* ecsService.printLastNEvents(10)
TasksRequested == 5      \* ecsService.printLastNTasks(5)

TimeoutSeconds == TimeoutMinutes * 60

Min(a, b) == IF a < b THEN a ELSE b

-----------------------------------------------------------------------------
(* The control plane's data *)

Deployments == [id : DeploymentIds, status : Statuses, rolloutState : RolloutStates]

Ids(ds) == {ds[i].id : i \in 1..Len(ds)}

\* Deployment lists the control plane returns: none or one deployment.
DeploymentLists == {<<>>} \cup {<<d>> : d \in Deployments}

\* The target groups of a service's load balancers.
LoadBalancerLists == {<<>>, <<"tg1">>}

\* Number of events of a snapshot fetched before the diagnostics.
EventCounts == {1}

Services == [deployments : DeploymentLists,
             desiredCount : DesiredCounts,
             runningCount : RunningCounts,
             loadBalancers : LoadBalancerLists,
             events : EventCounts]

NoService == [deployments |-> <<>>, desiredCount |-> -1, runningCount |-> -1,
              loadBalancers |-> <<>>, events |-> 0]

\* Outcomes of session.DescribeServices over the services S: a failed call,
\* an output with no service, an output whose first service is s.
ResponsesOf(S) ==
    {[kind |-> k, service |-> NoService] : k \in {"error", "empty"}}
        \cup {[kind |-> "ok", service |-> s] : s \in S}

Responses == ResponsesOf(Services)

\* Snapshots with two deployments of distinct ids, in both orders, for the
\* rollouts in which a new deployment takes over.
RolloutLists ==
    {<<>>}
        \cup {<<d>> : d \in {x \in Deployments : x.rolloutState /= "FAILED"}}
        \cup {<<a, b>> : a, b \in {x \in Deployments : x.rolloutState /= "FAILED"}}

RolloutServices ==
    {s \in [deployments : RolloutLists,
            desiredCount : DesiredCounts,
            runningCount : RunningCounts,
            loadBalancers : {<<>>},
            events : EventCounts] :
        Len(s.deployments) = 2 => s.deployments[1].id /= s.deployments[2].id}

RolloutResponses == ResponsesOf(RolloutServices)

\* Snapshots of a service with up to two load balancers, whose rollout is in
\* progress or complete.
TargetServices ==
    [deployments : {<<>>} \cup {<<d>> : d \in {x \in Deployments :
                        x.id = "d1" /\ x.status = "PRIMARY" /\ x.rolloutState /= "FAILED"}},
     desiredCount : DesiredCounts,
     runningCount : RunningCounts,
     loadBalancers : {<<>>, <<"tg1">>, <<"tg2", "tg1">>, <<"tg1", "tg2">>},
     events : EventCounts]

TargetResponses == ResponsesOf(TargetServices)

\* Snapshots of a service whose rollout is in progress or complete.
PollServices ==
    [deployments : {<<>>} \cup {<<d>> : d \in {x \in Deployments :
                        x.id = "d1" /\ x.status = "PRIMARY" /\ x.rolloutState /= "FAILED"}},
     desiredCount : DesiredCounts,
     runningCount : RunningCounts,
     loadBalancers : LoadBalancerLists,
     events : EventCounts]

PollResponses == ResponsesOf(PollServices)

\* First variant: snapshots with up to two deployments.
V1Lists ==
    LET ds == {x \in Deployments : x.status = "ACTIVE"}
    IN  {<<>>} \cup {<<d>> : d \in {x \in ds : x.id = "d1"}}
               \cup {<<a, b>> : a \in {x \in ds : x.id = "d1"},
                                b \in {x \in ds : x.id = "d2"}}

V1Services == [deployments : V1Lists,
               desiredCount : DesiredCounts,
               runningCount : DesiredCounts,
               loadBalancers : {<<>>},
               events : EventCounts]

V1Responses == ResponsesOf(V1Services)

\* The snapshots the diagnostics fetch: any number of events.
DiagServices ==
    {[deployments |-> <<>>, desiredCount |-> c, runningCount |-> c,
      loadBalancers |-> <<>>, events |-> n] : c \in DesiredCounts, n \in 0..MaxEvents}

DiagResponses == ResponsesOf(DiagServices)

\* Outcomes of session.ListTasks and session.DescribeTasks in printLastNTasks:
\* ListTasks fails, or returns n task ARNs and DescribeTasks then succeeds or
\* fails.
TaskResponses ==
    {[kind |-> "error", tasks |-> 0]}
        \cup {[kind |-> k, tasks |-> n] : k \in {"ok", "describe error"}, n \in 0..MaxTasks}

\* Outcomes of elbv2Session.DescribeTargetHealth.
HealthResponsesOf(max) ==
    {[kind |-> "error", states |-> <<>>]}
        \cup {[kind |-> "ok", states |-> h] :
                h \in UNION {[1..n -> TargetStates] : n \in 0..max}}

HealthResponses == HealthResponsesOf(MaxTargets)

\* Target groups with one target more.
TargetHealthResponses == HealthResponsesOf(MaxTargets + 1)

-----------------------------------------------------------------------------
(* Tickers: a period, the seconds left to the next fire, a channel of       *)
(* capacity one.  A fire into a full channel is dropped.                    *)

NoTicker == [period |-> 0, left |-> 0, ch |-> FALSE]

\* Mutant: a ticker of twice the period asked for.
NewTicker_TwiceThePeriod(period) ==
    [period |-> 2 * period, left |-> 2 * period, ch |-> FALSE]

NewTicker(period) == [period |-> period, left |-> period, ch |-> FALSE]

Advance(t, d) ==
    IF t.period = 0 \/ d < t.left
    THEN [t EXCEPT !.left = t.left - d]
    ELSE [t EXCEPT !.ch = TRUE,
                   !.left = t.period - ((d - t.left) % t.period)]

Receive(t) == [t EXCEPT !.ch = FALSE]


-----------------------------------------------------------------------------
(* Pure functions of the service handler *)

deploymentState(deployment, desiredState) == deployment.rolloutState = desiredState

\* The id of the first PRIMARY deployment, "" when there is none.
getActiveDeploymentId(svc) ==
    LET primary == {i \in 1..Len(svc.deployments) :
                        svc.deployments[i].status = "PRIMARY"}
    IN  IF primary = {} THEN ""
        ELSE svc.deployments[CHOOSE i \in primary : \A j \in primary : i <= j].id

\* Mutant: isComplete looking at the first deployment of the list, whatever its id.
isComplete_ByPosition(svc, id) ==
    IF Len(svc.deployments) = 0 THEN [status |-> "NOT_FOUND", ok |-> FALSE]
    ELSE [status |-> svc.deployments[1].rolloutState,
          ok |-> deploymentState(svc.deployments[1], "COMPLETED")]

\* The closure isComplete of waitForDeployment: the rollout state of the first
\* deployment with the id and whether it is COMPLETED; "NOT_FOUND" without one.
waitForDeployment_isComplete(svc, id) ==
    LET found == {i \in 1..Len(svc.deployments) : svc.deployments[i].id = id}
    IN  IF found = {} THEN [status |-> "NOT_FOUND", ok |-> FALSE]
        ELSE LET d == svc.deployments[CHOOSE i \in found : \A j \in found : i <= j]
             IN  [status |-> d.rolloutState, ok |-> deploymentState(d, "COMPLETED")]

\* Mutant: waitForDeployment without the check before its loop.
alreadyComplete_NoEarlyCheck(svc, id) == FALSE

\* The check before the tickers are created.
waitForDeployment_alreadyComplete(svc, id) == waitForDeployment_isComplete(svc, id).ok

\* Mutant: a tick that keeps waiting for a deployment that is gone.
onTick_IgnoresNotFound(svc, id) ==
    IF waitForDeployment_isComplete(svc, id).ok THEN "nil" ELSE "wait"

\* Mutant: a tick that gives up on a FAILED rollout.
onTick_FailsOnFailed(svc, id) ==
    LET r == waitForDeployment_isComplete(svc, id)
    IN  IF r.ok THEN "nil"
        ELSE IF r.status = "NOT_FOUND" THEN "deployment disappeared"
        ELSE IF r.status = "FAILED" THEN "deployment failed"
        ELSE "wait"

\* What a tick of waitForDeployment does with the refreshed snapshot:
\* "nil" (return success), an error to return, or "wait" (stay in the loop).
waitForDeployment_onTick(svc, id) ==
    LET r == waitForDeployment_isComplete(svc, id)
    IN  IF r.ok THEN "nil"
        ELSE IF r.status = "NOT_FOUND" THEN "deployment disappeared"
        ELSE "wait"

\* The closure isComplete of waitForRunningToMatchDesired.
waitForRunningToMatchDesired_isComplete(svc) == svc.desiredCount = svc.runningCount

\* Mutant: checkPendingCount that never waits.
mustWait_Never(svc) == FALSE

\* The test of checkPendingCount that sends it into the poll loop.
checkPendingCount_mustWait(svc) == svc.desiredCount /= svc.runningCount

\* refresh: the error it returns ("" = nil) and the snapshot it leaves cached.
refresh_err(resp) ==
    IF resp.kind = "error" THEN "describe services failed"
    ELSE IF resp.kind = "empty" THEN "service not found"
    ELSE ""

refresh_output(resp, cached) == IF resp.kind = "ok" THEN resp.service ELSE cached

\* Mutant: a target group is healthy when one of its targets is.
allHealthy_SomeHealthy(states) == \E i \in 1..Len(states) : states[i] = "healthy"

\* The loop of checkTargetGroup over the target health descriptions.
allHealthy(states) == \A i \in 1..Len(states) : states[i] = "healthy"

\* The number of items printLastNEvents and printLastNTasks slice off a list
\* of len items when asked for n.
printLastN_clamp(len, n) ==
    IF len < n THEN (IF len - 1 = 0 THEN 1 ELSE len - 1) ELSE n

\* list[0:n] of a list of len items (its capacity): the number of items of
\* the slice, -1 when the slice expression panics.
Slice(len, n) == IF n < 0 \/ n > len THEN -1 ELSE n

NotPrinted == [outcome |-> "not run", available |-> 0, shown |-> 0]

\* printLastNEvents and printLastNTasks after their fetch returned len items:
\* the message for an empty list, else the slice that is printed.
printLastN(len, n) ==
    IF len = 0 THEN [outcome |-> "none found", available |-> len, shown |-> 0]
    ELSE LET k == Slice(len, printLastN_clamp(len, n))
         IN  IF k < 0 THEN [outcome |-> "panic", available |-> len, shown |-> 0]
             ELSE [outcome |-> "printed", available |-> len, shown |-> k]

\* Mutant: the range loop waiting on every deployment that is not COMPLETED.
v1_next_EveryNotCompleted(list, from) ==
    LET c == {i \in from..Len(list) : ~deploymentState(list[i], "COMPLETED")}
    IN  IF c = {} THEN 0 ELSE CHOOSE i \in c : \A j \in c : i <= j

\* First variant, the range loop of checkDeployments from index from on: the
\* index of the next deployment it calls waitForDeployment for, 0 when the
\* loop ends without one.
v1_checkDeployments_next(list, from) ==
    LET c == {i \in from..Len(list) :
                /\ ~deploymentState(list[i], "COMPLETED")
                /\ deploymentState(list[i], "IN_PROGRESS")}
    IN  IF c = {} THEN 0 ELSE CHOOSE i \in c : \A j \in c : i <= j

\* Mutant: main giving up when the target group is not healthy.
afterCheckTargetGroup_GivesUp(e, ok) ==
    IF e /= "" \/ ~ok THEN "exitOut" ELSE "exited"

\* Mutant: main dropping the error of checkDeployments.
afterCheckDeployments_IgnoresError(e) == "checkPendingCount"

\* main after each phase: the error branch calls exitOut, which never returns.
main_afterCheckDeployments(e) == IF e /= "" THEN "exitOut" ELSE "checkPendingCount"

main_afterCheckPendingCount(e) == IF e /= "" THEN "exitOut" ELSE "checkTargetGroup"

main_afterCheckTargetGroup(e, ok) ==
    IF e /= "" THEN "exitOut" ELSE IF ok THEN "exited" ELSE "checkPendingCount"

-----------------------------------------------------------------------------
(* State *)

flags == <<flagCheckInterval, flagTimeout, flagVerbose>>

NoCounts == [desiredCount |-> -1, runningCount |-> -1]

Counts(svc) == [desiredCount |-> svc.desiredCount, runningCount |-> svc.runningCount]

\* The range loop of the first variant's checkDeployments: the deployments it
\* ranges over, the index of the one it waits for, the ids it has called
\* waitForDeployment for.
NoRange == [list |-> <<>>, at |-> 0, waited |-> {}]

\* The record of the handler that ran last: its name, the outcome of its
\* DescribeServices call ("none" without one), whether the timeout channel
\* was full when its select case was chosen and when it finished, the seconds
\* its poll loop had run when it finished, the seconds it slept, the seconds
\* it slept after its last DescribeServices call (the age of the snapshot it
\* leaves cached), whether it queried the target health, of which target
\* group and with which answer, and what the diagnostics printed.
Did(op, fetch, pending, fired, ran, slept, health) ==
    [op |-> op, fetch |-> fetch, pending |-> pending, fired |-> fired,
     ran |-> ran, slept |-> slept, stale |-> slept, health |-> health,
     group |-> "", states |-> <<>>, events |-> NotPrinted, tasks |-> NotPrinted]

FetchOf(resp) ==
    IF resp.kind = "ok" THEN "ok" ELSE IF resp.kind = "empty" THEN "not found" ELSE "error"

\* run once more than MaxRun handlers have run.
TooLong == <<[op |-> "...", secs |-> 0]>>

\* run after the handler op, which took secs seconds.
Ran(op, secs) ==
    IF run = TooLong \/ Len(run) >= MaxRun THEN TooLong
    ELSE Append(run, [op |-> op, secs |-> secs])

\* The state after flag.Parse(), for the command lines O.
InitOn(O) ==
    /\ pc = "newSession"
    /\ \E o \in O : /\ flagCheckInterval = o.check
                    /\ flagTimeout = o.timeout
                    /\ flagVerbose = o.verbose
    /\ currentOutput = NoService
    /\ deploymentId = ""
    /\ checkTimer = NoTicker
    /\ timeout = NoTicker
    /\ elapsed = 0
    /\ phaseA = "notStarted"
    /\ phaseB = "notStarted"
    /\ phaseC = "notStarted"
    /\ observed = NoCounts
    /\ err = ""
    /\ exitCode = -1
    /\ ranged = NoRange
    /\ run = <<>>
    /\ last = Did("start", "none", FALSE, FALSE, 0, 0, FALSE)

Init == InitOn(Options)

-----------------------------------------------------------------------------
(* main before the phases *)

\* session.NewSession, newServiceHandler
Main_NewSession ==
    /\ pc = "newSession"
    /\ \E ok \in BOOLEAN :
        /\ pc' = IF ok THEN "describeServiceRaw" ELSE "exited"
        /\ exitCode' = IF ok THEN exitCode ELSE ExitFailure
    /\ last' = Did("newSession", "none", FALSE, FALSE, 0, 0, FALSE)
    /\ run' = Ran("newSession", 0)
    /\ UNCHANGED <<flags, currentOutput, deploymentId, checkTimer, timeout, elapsed,
                   phaseA, phaseB, phaseC, observed, err, ranged>>

\* describeServiceRaw and the two exits on its result
Main_DescribeServiceRaw(R) ==
    /\ pc = "describeServiceRaw"
    /\ \E resp \in R :
        /\ pc' = IF resp.kind = "ok" THEN "refresh" ELSE "exited"
        /\ exitCode' = IF resp.kind = "ok" THEN exitCode ELSE ExitFailure
        /\ last' = Did("describeServiceRaw", FetchOf(resp), FALSE, FALSE, 0, 0, FALSE)
    /\ run' = Ran("describeServiceRaw", 0)
    /\ UNCHANGED <<flags, currentOutput, deploymentId, checkTimer, timeout, elapsed,
                   phaseA, phaseB, phaseC, observed, err, ranged>>

\* ecsService.refresh() of main
Main_Refresh(R) ==
    /\ pc = "refresh"
    /\ \E resp \in R :
        /\ currentOutput' = refresh_output(resp, currentOutput)
        /\ pc' = IF refresh_err(resp) /= "" THEN "exited"
                 ELSE IF flagVerbose THEN "printDetails" ELSE "checkDeployments"
        /\ exitCode' = IF refresh_err(resp) = "" THEN exitCode ELSE ExitFailure
        /\ last' = Did("refresh", FetchOf(resp), FALSE, FALSE, 0, 0, FALSE)
    /\ run' = Ran("refresh", 0)
    /\ UNCHANGED <<flags, deploymentId, checkTimer, timeout, elapsed,
                   phaseA, phaseB, phaseC, observed, err, ranged>>

\* ecsService.printDetails() under -V: details is the pointer
\* sh.currentOutput, so the empty event list is stored in the cached snapshot.
Main_PrintDetails ==
    /\ pc = "printDetails"
    /\ currentOutput' = [currentOutput EXCEPT !.events = 0]
    /\ pc' = "checkDeployments"
    /\ last' = Did("printDetails", "none", FALSE, FALSE, 0, 0, FALSE)
    /\ run' = Ran("printDetails", 0)
    /\ UNCHANGED <<flags, deploymentId, checkTimer, timeout, elapsed,
                   phaseA, phaseB, phaseC, observed, err, exitCode, ranged>>

-----------------------------------------------------------------------------
(* Phase A: checkDeployments and the poll loop of waitForDeployment *)

\* checkDeployments up to the creation of the tickers in waitForDeployment.
CheckDeployments(R) ==
    /\ pc = "checkDeployments"
    /\ \E resp \in R :
        LET e == refresh_err(resp)
            svc == refresh_output(resp, currentOutput)
            id == getActiveDeploymentId(svc)
            done == e = "" /\ waitForDeployment_alreadyComplete(svc, id)
            loop == e = "" /\ ~done
        IN  /\ currentOutput' = svc
            /\ deploymentId' = IF e = "" THEN id ELSE deploymentId
            /\ checkTimer' = IF loop THEN NewTicker(CheckTimerSeconds) ELSE NoTicker
            /\ timeout' = IF loop THEN NewTicker(TimeoutSeconds) ELSE NoTicker
            /\ phaseA' = IF loop THEN "waiting" ELSE IF done THEN "ok" ELSE "failed"
            /\ err' = e
            /\ pc' = IF loop THEN "waitForDeployment" ELSE main_afterCheckDeployments(e)
            /\ last' = Did("checkDeployments", FetchOf(resp), FALSE, FALSE, 0, 0, FALSE)
    /\ elapsed' = 0
    /\ run' = Ran("checkDeployments", 0)
    /\ UNCHANGED <<flags, phaseB, phaseC, observed, exitCode, ranged>>

\* select blocks until a ticker fires.
WaitForDeployment_Block ==
    /\ pc = "waitForDeployment"
    /\ ~checkTimer.ch /\ ~timeout.ch
    /\ LET d == Min(checkTimer.left, timeout.left)
       IN  /\ checkTimer' = Advance(checkTimer, d)
           /\ timeout' = Advance(timeout, d)
           /\ elapsed' = Min(elapsed + d, MaxElapsed)
           /\ last' = Did("waitForDeployment.block", "none", FALSE, FALSE,
                          Min(elapsed + d, MaxElapsed), 0, FALSE)
           /\ run' = Ran("waitForDeployment.block", d)
    /\ UNCHANGED <<pc, flags, currentOutput, deploymentId,
                   phaseA, phaseB, phaseC, observed, err, exitCode, ranged>>

\* case <-checkTimer.C
WaitForDeployment_Tick(R) ==
    /\ pc = "waitForDeployment"
    /\ checkTimer.ch
    /\ \E resp \in R, d \in CallDelays :
        LET e == refresh_err(resp)
            svc == refresh_output(resp, currentOutput)
            verdict == IF e /= "" THEN e ELSE waitForDeployment_onTick(svc, deploymentId)
            ran == Min(elapsed + d, MaxElapsed)
            ticks == Advance(Receive(checkTimer), d)
            deadline == Advance(timeout, d)
            result == IF verdict = "nil" THEN "" ELSE verdict
        IN  /\ currentOutput' = svc
            /\ last' = Did("waitForDeployment.tick", FetchOf(resp), timeout.ch,
                           deadline.ch, ran, 0, FALSE)
            /\ run' = Ran("waitForDeployment.tick", d)
            /\ IF verdict = "wait"
               THEN /\ checkTimer' = ticks
                    /\ timeout' = deadline
                    /\ elapsed' = ran
                    /\ UNCHANGED <<pc, phaseA, err>>
               ELSE /\ checkTimer' = NoTicker
                    /\ timeout' = NoTicker
                    /\ elapsed' = 0
                    /\ phaseA' = IF result = "" THEN "ok" ELSE "failed"
                    /\ err' = result
                    /\ pc' = main_afterCheckDeployments(result)
    /\ UNCHANGED <<flags, deploymentId, phaseB, phaseC, observed, exitCode, ranged>>

\* Mutant: a timeout that is never received.
Timeout_NeverReceived == FALSE

\* case <-timeout.C
WaitForDeployment_Timeout ==
    /\ pc = "waitForDeployment"
    /\ timeout.ch
    /\ checkTimer' = NoTicker
    /\ timeout' = NoTicker
    /\ elapsed' = 0
    /\ phaseA' = "failed"
    /\ err' = "timeouted out waiting for deployment to happen"
    /\ pc' = main_afterCheckDeployments(err')
    /\ last' = Did("waitForDeployment.timeout", "none", TRUE, TRUE, elapsed, 0, FALSE)
    /\ run' = Ran("waitForDeployment.timeout", 0)
    /\ UNCHANGED <<flags, currentOutput, deploymentId,
                   phaseB, phaseC, observed, exitCode, ranged>>

-----------------------------------------------------------------------------
(* Phase B: checkPendingCount and the poll loop of waitForRunningToMatchDesired *)

\* checkPendingCount up to the creation of the tickers.
CheckPendingCount(R) ==
    /\ pc = "checkPendingCount"
    /\ \E resp \in R :
        LET e == refresh_err(resp)
            svc == refresh_output(resp, currentOutput)
            loop == /\ e = ""
                    /\ checkPendingCount_mustWait(svc)
                    /\ ~waitForRunningToMatchDesired_isComplete(svc)
            done == e = "" /\ ~loop
        IN  /\ currentOutput' = svc
            /\ checkTimer' = IF loop THEN NewTicker(CheckTimerSeconds) ELSE NoTicker
            /\ timeout' = IF loop THEN NewTicker(TimeoutSeconds) ELSE NoTicker
            /\ phaseB' = IF loop THEN "waiting" ELSE IF done THEN "ok" ELSE "failed"
            /\ observed' = IF done THEN Counts(svc) ELSE observed
            /\ err' = e
            /\ pc' = IF loop THEN "waitForRunningToMatchDesired"
                     ELSE main_afterCheckPendingCount(e)
            /\ last' = Did("checkPendingCount", FetchOf(resp), FALSE, FALSE, 0, 0, FALSE)
    /\ elapsed' = 0
    /\ deploymentId' = ""
    /\ phaseC' = "notStarted"
    /\ run' = Ran("checkPendingCount", 0)
    /\ UNCHANGED <<flags, phaseA, exitCode, ranged>>

\* select blocks until a ticker fires.
WaitForRunning_Block ==
    /\ pc = "waitForRunningToMatchDesired"
    /\ ~checkTimer.ch /\ ~timeout.ch
    /\ LET d == Min(checkTimer.left, timeout.left)
       IN  /\ checkTimer' = Advance(checkTimer, d)
           /\ timeout' = Advance(timeout, d)
           /\ elapsed' = Min(elapsed + d, MaxElapsed)
           /\ last' = Did("waitForRunningToMatchDesired.block", "none", FALSE, FALSE,
                          Min(elapsed + d, MaxElapsed), 0, FALSE)
           /\ run' = Ran("waitForRunningToMatchDesired.block", d)
    /\ UNCHANGED <<pc, flags, currentOutput, deploymentId,
                   phaseA, phaseB, phaseC, observed, err, exitCode, ranged>>

\* case <-checkTimer.C: the result of sh.refresh() is dropped; when the counts
\* match, the handler sleeps the grace period and tests the cached snapshot again.
WaitForRunning_Tick(R) ==
    /\ pc = "waitForRunningToMatchDesired"
    /\ checkTimer.ch
    /\ \E resp \in R, d \in CallDelays :
        LET e == refresh_err(resp)
            svc == refresh_output(resp, currentOutput)
            matched == waitForRunningToMatchDesired_isComplete(svc)
            took == IF matched THEN d + GraceSeconds ELSE d
            done == matched /\ waitForRunningToMatchDesired_isComplete(svc)
            ran == Min(elapsed + took, MaxElapsed)
            ticks == Advance(Receive(checkTimer), took)
            deadline == Advance(timeout, took)
        IN  /\ currentOutput' = svc
            /\ last' = Did("waitForRunningToMatchDesired.tick", FetchOf(resp),
                           timeout.ch, deadline.ch, ran, took - d, FALSE)
            /\ run' = Ran("waitForRunningToMatchDesired.tick", took)
            /\ IF done
               THEN /\ checkTimer' = NoTicker
                    /\ timeout' = NoTicker
                    /\ elapsed' = 0
                    /\ phaseB' = "ok"
                    /\ observed' = Counts(svc)
                    /\ pc' = main_afterCheckPendingCount("")
               ELSE /\ checkTimer' = ticks
                    /\ timeout' = deadline
                    /\ elapsed' = ran
                    /\ UNCHANGED <<pc, phaseB, observed>>
    /\ UNCHANGED <<flags, deploymentId, phaseA, phaseC, err, exitCode, ranged>>

\* case <-timeout.C
WaitForRunning_Timeout ==
    /\ pc = "waitForRunningToMatchDesired"
    /\ timeout.ch
    /\ checkTimer' = NoTicker
    /\ timeout' = NoTicker
    /\ elapsed' = 0
    /\ phaseB' = "failed"
    /\ err' = "timeouted out waiting for desired to match running"
    /\ pc' = main_afterCheckPendingCount(err')
    /\ last' = Did("waitForRunningToMatchDesired.timeout", "none", TRUE, TRUE,
                   elapsed, 0, FALSE)
    /\ run' = Ran("waitForRunningToMatchDesired.timeout", 0)
    /\ UNCHANGED <<flags, currentOutput, deploymentId,
                   phaseA, phaseC, observed, exitCode, ranged>>

-----------------------------------------------------------------------------
(* Phase C: checkTargetGroup and the tail of main's loop *)

\* checkTargetGroup: the health of the targets of the target group of the
\* first load balancer, sh.currentOutput.LoadBalancers[0].
CheckTargetGroup(R, H) ==
    /\ pc = "checkTargetGroup"
    /\ \E resp \in R, health \in H :
        LET e1 == refresh_err(resp)
            svc == refresh_output(resp, currentOutput)
            asked == e1 = "" /\ Len(svc.loadBalancers) /= 0
            e == IF e1 /= "" THEN e1
                 ELSE IF asked /\ health.kind = "error"
                      THEN "describe target health failed"
                 ELSE ""
            ok == e = "" /\ (~asked \/ allHealthy(health.states))
            next == main_afterCheckTargetGroup(e, ok)
            \* not converged: time.Sleep(flagCheckInterval seconds)
            sleep == IF next = "checkPendingCount" THEN flagCheckInterval ELSE 0
        IN  \* without a load balancer no health query is made: none is drawn
            /\ ~asked => health = [kind |-> "error", states |-> <<>>]
            /\ currentOutput' = svc
            /\ phaseC' = IF e /= "" THEN "failed"
                         ELSE IF ok THEN "ok" ELSE "notConverged"
            /\ err' = e
            /\ pc' = next
            /\ exitCode' = IF next = "exited" THEN 0 ELSE exitCode
            /\ last' = [Did("checkTargetGroup", FetchOf(resp), FALSE, FALSE, 0,
                            sleep, asked)
                          EXCEPT !.group = IF asked THEN svc.loadBalancers[1] ELSE "",
                                 !.states = IF asked THEN health.states ELSE <<>>]
            /\ run' = Ran("checkTargetGroup", sleep)
    /\ UNCHANGED <<flags, deploymentId, checkTimer, timeout,
                   elapsed, phaseA, phaseB, observed, ranged>>

-----------------------------------------------------------------------------
(* exitOut: printLastNEvents(10), printLastNTasks(5), os.Exit(code) *)

NotFetched == [outcome |-> "error", available |-> 0, shown |-> 0]

\* exitOut up to the return of printLastNEvents
ExitOut_PrintLastNEvents(D) ==
    /\ pc = "exitOut"
    /\ \E resp \in D :
        LET e == refresh_err(resp)
            svc == refresh_output(resp, currentOutput)
            events == IF e /= "" THEN NotFetched
                      ELSE printLastN(svc.events, EventsRequested)
        IN  /\ currentOutput' = svc
            /\ last' = [Did("exitOut.printLastNEvents", FetchOf(resp), FALSE, FALSE,
                            0, 0, FALSE)
                          EXCEPT !.events = events]
    /\ pc' = "printLastNTasks"
    /\ deploymentId' = ""
    /\ run' = Ran("exitOut.printLastNEvents", 0)
    /\ UNCHANGED <<flags, checkTimer, timeout, elapsed, phaseA, phaseB, phaseC,
                   observed, err, exitCode, ranged>>

\* exitOut from printLastNTasks to os.Exit(code)
ExitOut_PrintLastNTasks(T) ==
    /\ pc = "printLastNTasks"
    /\ \E listed \in T :
        LET stopped == printLastN(listed.tasks, TasksRequested)
            tasks == IF listed.kind = "ok" THEN stopped ELSE NotFetched
        IN  \* DescribeTasks is called only for a list with tasks
            /\ listed.kind = "describe error" => stopped.outcome = "printed"
            /\ last' = [Did("exitOut.printLastNTasks", "none", FALSE, FALSE, 0, 0, FALSE)
                          EXCEPT !.tasks = tasks]
    /\ pc' = "exited"
    /\ exitCode' = ExitFailure
    /\ run' = Ran("exitOut.printLastNTasks", 0)
    /\ UNCHANGED <<flags, currentOutput, deploymentId, checkTimer, timeout, elapsed,
                   phaseA, phaseB, phaseC, observed, err, ranged>>

-----------------------------------------------------------------------------
(* First variant (lines 1-326): checkDeployments ranges over the deployments *)
(* of the snapshot it fetched and waits for those IN_PROGRESS; its           *)
(* waitForDeployment has no check before the loop.                           *)

\* checkDeployments up to the creation of the tickers of the first
\* waitForDeployment, or to its return.
V1_CheckDeployments(R) ==
    /\ pc = "checkDeployments"
    /\ \E resp \in R :
        LET e == refresh_err(resp)
            svc == refresh_output(resp, currentOutput)
            at == IF e = "" THEN v1_checkDeployments_next(svc.deployments, 1) ELSE 0
            loop == at /= 0
        IN  /\ currentOutput' = svc
            /\ ranged' = IF e /= "" THEN ranged
                         ELSE [list |-> svc.deployments, at |-> at,
                               waited |-> IF loop THEN {svc.deployments[at].id} ELSE {}]
            /\ deploymentId' = IF loop THEN svc.deployments[at].id ELSE deploymentId
            /\ checkTimer' = IF loop THEN NewTicker(CheckTimerSeconds) ELSE NoTicker
            /\ timeout' = IF loop THEN NewTicker(TimeoutSeconds) ELSE NoTicker
            /\ phaseA' = IF loop THEN "waiting" ELSE IF e = "" THEN "ok" ELSE "failed"
            /\ err' = e
            /\ pc' = IF loop THEN "waitForDeployment" ELSE main_afterCheckDeployments(e)
            /\ last' = Did("checkDeployments", FetchOf(resp), FALSE, FALSE, 0, 0, FALSE)
    /\ elapsed' = 0
    /\ run' = Ran("checkDeployments", 0)
    /\ UNCHANGED <<flags, phaseB, phaseC, observed, exitCode>>

\* case <-checkTimer.C; on nil the range loop of checkDeployments goes on to
\* the next IN_PROGRESS deployment of the list it ranges over.
V1_WaitForDeployment_Tick(R) ==
    /\ pc = "waitForDeployment"
    /\ checkTimer.ch
    /\ \E resp \in R, d \in CallDelays :
        LET e == refresh_err(resp)
            svc == refresh_output(resp, currentOutput)
            verdict == IF e /= "" THEN e ELSE waitForDeployment_onTick(svc, deploymentId)
            ran == Min(elapsed + d, MaxElapsed)
            at == v1_checkDeployments_next(ranged.list, ranged.at + 1)
        IN  /\ currentOutput' = svc
            /\ last' = Did("waitForDeployment.tick", FetchOf(resp), timeout.ch,
                           Advance(timeout, d).ch, ran, 0, FALSE)
            /\ run' = Ran("waitForDeployment.tick", d)
            /\ IF verdict = "wait"
               THEN /\ checkTimer' = Advance(Receive(checkTimer), d)
                    /\ timeout' = Advance(timeout, d)
                    /\ elapsed' = ran
                    /\ UNCHANGED <<pc, phaseA, err, deploymentId, ranged>>
               ELSE IF verdict = "nil" /\ at /= 0
               THEN /\ checkTimer' = NewTicker(CheckTimerSeconds)
                    /\ timeout' = NewTicker(TimeoutSeconds)
                    /\ elapsed' = 0
                    /\ deploymentId' = ranged.list[at].id
                    /\ ranged' = [ranged EXCEPT !.at = at,
                                     !.waited = ranged.waited \cup {ranged.list[at].id}]
                    /\ UNCHANGED <<pc, phaseA, err>>
               ELSE /\ checkTimer' = NoTicker
                    /\ timeout' = NoTicker
                    /\ elapsed' = 0
                    /\ phaseA' = IF verdict = "nil" THEN "ok" ELSE "failed"
                    /\ err' = IF verdict = "nil" THEN "" ELSE verdict
                    /\ pc' = main_afterCheckDeployments(err')
                    /\ UNCHANGED <<deploymentId, ranged>>
    /\ UNCHANGED <<flags, phaseB, phaseC, observed, exitCode>>

-----------------------------------------------------------------------------

\* The program in the environment whose DescribeServices answers are R, whose
\* DescribeTargetHealth answers are H, and whose answers to the diagnostics
\* are D and T.
NextOn(R, H, D, T) ==
    \/ Main_NewSession
    \/ Main_DescribeServiceRaw(R)
    \/ Main_Refresh(R)
    \/ Main_PrintDetails
    \/ CheckDeployments(R)
    \/ WaitForDeployment_Block
    \/ WaitForDeployment_Tick(R)
    \/ WaitForDeployment_Timeout
    \/ CheckPendingCount(R)
    \/ WaitForRunning_Block
    \/ WaitForRunning_Tick(R)
    \/ WaitForRunning_Timeout
    \/ CheckTargetGroup(R, H)
    \/ ExitOut_PrintLastNEvents(D)
    \/ ExitOut_PrintLastNTasks(T)

Next == NextOn(Responses, HealthResponses, DiagResponses, TaskResponses)

Spec == Init /\ [][Next]_vars

NextPoll == NextOn(PollResponses, HealthResponses, DiagResponses, TaskResponses)

\* Every call returns and every timer fires, so the program takes its next
\* step; select chooses among its ready cases at random and a timeout that
\* has fired stays ready until it is received, so it is received.
FairSpec ==
    /\ Init
    /\ [][NextPoll]_vars
    /\ WF_vars(NextPoll)
    /\ WF_vars(WaitForDeployment_Timeout)
    /\ WF_vars(WaitForRunning_Timeout)

NextTargets ==
    NextOn(TargetResponses, TargetHealthResponses, DiagResponses, TaskResponses)

SpecTargets == Init /\ [][NextTargets]_vars

\* The environment of FairSpec with no assumption on scheduling.
SpecPoll == Init /\ [][NextPoll]_vars

NextRollout == NextOn(RolloutResponses, HealthResponses, DiagResponses, TaskResponses)

SpecRollout == Init /\ [][NextRollout]_vars

\* The first variant from the start of main to the return of checkDeployments.
NextV1 ==
    \/ Main_NewSession
    \/ Main_DescribeServiceRaw(V1Responses)
    \/ Main_Refresh(V1Responses)
    \/ Main_PrintDetails
    \/ V1_CheckDeployments(V1Responses)
    \/ WaitForDeployment_Block
    \/ V1_WaitForDeployment_Tick(V1Responses)
    \/ WaitForDeployment_Timeout

SpecV1 == Init /\ [][NextV1]_vars

TypeOK ==
    /\ pc \in {"newSession", "describeServiceRaw", "refresh", "printDetails",
               "checkDeployments", "waitForDeployment", "checkPendingCount",
               "waitForRunningToMatchDesired", "checkTargetGroup", "exitOut",
               "printLastNTasks", "exited"}
    /\ currentOutput.events \in 0..MaxEvents
    /\ elapsed \in 0..MaxElapsed
    /\ deploymentId \in DeploymentIds \cup {""}
    /\ exitCode \in {-1, 0, ExitFailure}
    /\ Len(run) <= MaxRun

-----------------------------------------------------------------------------
(* Properties *)

TickOps == {"waitForDeployment.tick", "waitForRunningToMatchDesired.tick"}
TimeoutOps == {"waitForDeployment.timeout", "waitForRunningToMatchDesired.timeout"}
PreflightOps == {"newSession", "describeServiceRaw", "refresh"}
ExitOutOps == {"exitOut.printLastNEvents", "exitOut.printLastNTasks"}

\* The tracked deployment in the cached snapshot.
Tracked == {i \in 1..Len(currentOutput.deployments) :
                currentOutput.deployments[i].id = deploymentId}

\* C1: a tick of the count loop that returns success has slept the grace
\* period and then fetched the snapshot on which it re-tested the counts: the
\* snapshot it leaves cached was fetched after the sleep.
C1_SuccessOnFreshSnapshotAfterGrace ==
    (last.op = "waitForRunningToMatchDesired.tick" /\ phaseB = "ok")
        => (last.slept = GraceSeconds /\ last.stale = 0)

\* C2: when the snapshot checkDeployments fetched has no PRIMARY deployment,
\* checkDeployments has returned success in that same call, with no poll loop.
C2_NoPrimarySucceedsAtOnce ==
    ( /\ last.op = "checkDeployments"
      /\ last.fetch = "ok"
      /\ \A i \in 1..Len(currentOutput.deployments) :
            currentOutput.deployments[i].status /= "PRIMARY" )
        => (phaseA = "ok" /\ err = "" /\ pc = "checkPendingCount")

C4_PhaseOrder ==
    /\ [](phaseB /= "notStarted" => phaseA = "ok")
    /\ [](phaseC /= "notStarted" => phaseB = "ok")
    /\ [](last.health => (phaseA = "ok" /\ phaseB = "ok"))
    /\ [][err /= "" => /\ last'.op \in ExitOutOps
                       /\ UNCHANGED <<phaseA, phaseB, phaseC, err>>]_vars

C4_Witness ==
    /\ pc = "exited"
    /\ phaseA = "ok"
    /\ phaseB = "failed"
    /\ phaseC = "notStarted"
    /\ last.op = "exitOut.printLastNTasks"

\* C5: when the snapshot checkDeployments fetched has its PRIMARY deployment
\* COMPLETED, checkDeployments has returned success in that same call: no
\* ticker was created, so no tick was consumed and no further refresh made.
C5_CompletedOnFirstFetch ==
    ( /\ last.op = "checkDeployments"
      /\ last.fetch = "ok"
      /\ \E i \in 1..Len(currentOutput.deployments) :
            /\ currentOutput.deployments[i].status = "PRIMARY"
            /\ currentOutput.deployments[i].rolloutState = "COMPLETED" )
        => /\ phaseA = "ok" /\ err = ""
           /\ pc = "checkPendingCount"
           /\ checkTimer = NoTicker /\ timeout = NoTicker

C5_Witness ==
    /\ last.op = "checkDeployments"
    /\ last.fetch = "ok"
    /\ phaseA = "ok"
    /\ \E i \in 1..Len(currentOutput.deployments) :
            /\ currentOutput.deployments[i].status = "PRIMARY"
            /\ currentOutput.deployments[i].rolloutState = "COMPLETED"

\* C6: a tick of waitForDeployment whose refreshed snapshot lacks the tracked
\* id returns "deployment disappeared", and that error is returned by no
\* other handler and on no other snapshot.
C6_DisappearedOnFirstAbsence ==
    /\ (last.op = "waitForDeployment.tick" /\ last.fetch = "ok" /\ Tracked = {})
          => (err = "deployment disappeared" /\ phaseA = "failed" /\ pc = "exitOut")
    /\ (err = "deployment disappeared" /\ pc = "exitOut")
          => (last.op = "waitForDeployment.tick" /\ last.fetch = "ok" /\ Tracked = {})

C6_Witness ==
    /\ err = "deployment disappeared"
    /\ pc = "exitOut"
    /\ deploymentId \in DeploymentIds
    /\ currentOutput.deployments /= <<>>

\* C7: a tick of waitForDeployment that finds the tracked deployment present
\* and not COMPLETED stays in the loop without an error; the loop ends only
\* with success on COMPLETED, with "deployment disappeared" on absence, with
\* the error of a failed refresh, or with the timeout.
C7_OnlyExitsOfPhaseALoop ==
    /\ ( /\ last.op = "waitForDeployment.tick"
         /\ last.fetch = "ok"
         /\ \E i \in Tracked : currentOutput.deployments[i].rolloutState /= "COMPLETED" )
          => (pc = "waitForDeployment" /\ phaseA = "waiting" /\ err = "")
    /\ (last.op = "waitForDeployment.tick" /\ pc /= "waitForDeployment")
          => \/ /\ phaseA = "ok" /\ err = ""
                /\ \E i \in Tracked : currentOutput.deployments[i].rolloutState = "COMPLETED"
             \/ /\ err = "deployment disappeared" /\ Tracked = {}
             \/ /\ err \in {"describe services failed", "service not found"}
                /\ last.fetch /= "ok"
    /\ (phaseA = "failed" /\ pc = "exitOut")
          => \/ last.op = "checkDeployments" /\ last.fetch /= "ok"
             \/ last.op = "waitForDeployment.tick"
             \/ /\ last.op = "waitForDeployment.timeout"
                /\ err = "timeouted out waiting for deployment to happen"

C7_Witness ==
    /\ last.op = "waitForDeployment.tick"
    /\ pc = "waitForDeployment"
    /\ \E i \in Tracked : currentOutput.deployments[i].rolloutState = "FAILED"

\* C8: a tick handled when the timeout ticker has fired (before the tick was
\* selected or while its handler ran) returns neither success nor
\* "deployment disappeared".
C8_NoResultAfterTimeoutFired ==
    /\ (last.op = "waitForDeployment.tick" /\ last.fired)
          => (phaseA /= "ok" /\ err /= "deployment disappeared")
    /\ (last.op = "waitForRunningToMatchDesired.tick" /\ last.fired)
          => phaseB /= "ok"

\* C9: a poll loop returns its timeout error no earlier than -timeout minutes
\* after it created its tickers.
C9_TimeoutNotBeforeConfigured ==
    last.op \in TimeoutOps => last.ran >= flagTimeout * 60

\* C10: the tick ticker of a poll loop has the period given by -check.
C10_TickEveryCheckInterval ==
    checkTimer /= NoTicker => checkTimer.period = flagCheckInterval

\* C12: a handler of a phase whose DescribeServices call failed or found no
\* service has made its phase return the error to main at once.
C12_FailedCallIsFatal ==
    ( /\ last.op \in {"checkDeployments", "waitForDeployment.tick", "checkPendingCount",
                      "waitForRunningToMatchDesired.tick", "checkTargetGroup"}
      /\ last.fetch \in {"error", "not found"} )
        => (err /= "" /\ pc = "exitOut")

\* C13: the process ends with exit code 1 only out of exitOut, after the
\* diagnostics.
C13_ExitFailureThroughDiagnostics ==
    (pc = "exited" /\ exitCode = ExitFailure) => last.op = "exitOut.printLastNTasks"

\* C17: when the process exits 0 the cached snapshot has equal counts.
C17_ExitZeroOnEqualCounts ==
    exitCode = 0 => currentOutput.desiredCount = currentOutput.runningCount

\* C15: checkTargetGroup queries the target health exactly when the snapshot
\* it fetched has a load balancer, and then of the target group of the first
\* one; it reports converged exactly when there is no load balancer or every
\* target of the answer is healthy (an answer without targets included), and
\* the process then exits 0; otherwise main sleeps -check seconds and goes
\* back to the count check.
C15_ConvergedIffFirstGroupHealthy ==
    (last.op = "checkTargetGroup" /\ last.fetch = "ok" /\ err = "")
        => /\ last.health <=> Len(currentOutput.loadBalancers) /= 0
           /\ last.health => last.group = currentOutput.loadBalancers[1]
           /\ phaseC = "ok" <=>
                \/ Len(currentOutput.loadBalancers) = 0
                \/ \A i \in 1..Len(last.states) : last.states[i] = "healthy"
           /\ phaseC = "ok" => (pc = "exited" /\ exitCode = 0)
           /\ phaseC /= "ok" => /\ phaseC = "notConverged"
                                /\ pc = "checkPendingCount"
                                /\ exitCode = -1
                                /\ last.slept = flagCheckInterval

\* Two load balancers, the first group's targets one healthy and one not:
\* not converged.
C15_Witness ==
    /\ last.op = "checkTargetGroup"
    /\ Len(currentOutput.loadBalancers) = 2
    /\ last.group = "tg2"
    /\ last.states = <<"healthy", "unhealthy">>
    /\ phaseC = "notConverged"
    /\ pc = "checkPendingCount"

\* The handlers of run and the seconds they took together.
RunOps == [i \in 1..Len(run) |-> run[i].op]

RECURSIVE SecondsOf(_)
SecondsOf(r) == IF r = <<>> THEN 0 ELSE r[1].secs + SecondsOf(Tail(r))

\* End-to-end scenario 2: the deployment is not complete on the fetch of
\* checkDeployments and complete on the first tick, the count check finds
\* equal counts, there is no load balancer, the process exits 0.
Scenario2 ==
    /\ exitCode = 0
    /\ RunOps = <<"newSession", "describeServiceRaw", "refresh", "checkDeployments",
                  "waitForDeployment.block", "waitForDeployment.tick",
                  "checkPendingCount", "checkTargetGroup">>
    /\ ~last.health

\* C11 as stated: scenario 2 takes one tick delay and the grace sleep.
C11_Scenario2TickPlusGrace ==
    Scenario2 => SecondsOf(run) = CheckTimerSeconds + GraceSeconds

\* C11 amended: scenario 2 takes exactly one tick delay of 10 seconds; the
\* count check returns on its own fetch, so the grace sleep is not made.
C11_Scenario2OneTick ==
    Scenario2 => /\ SecondsOf(run) = CheckTimerSeconds
                 /\ last.slept = 0
                 /\ \A i \in 1..Len(run) : run[i].secs /= GraceSeconds

C11_Witness ==
    /\ Scenario2
    /\ observed = [desiredCount |-> 2, runningCount |-> 2]
    /\ currentOutput.deployments /= <<>>
    /\ currentOutput.deployments[1].rolloutState = "COMPLETED"

\* What the diagnostics are to print of the items available when n are asked for.
ShowsAvailable(printed, n) ==
    IF printed.available = 0 THEN printed.outcome = "none found"
    ELSE printed.outcome = "printed" /\ printed.shown = Min(printed.available, n)

\* C14: printLastNEvents(10) and printLastNTasks(5), when their fetch
\* succeeded, print the none-found message for an empty list, all the items
\* of a list shorter than asked for, and else as many items as asked for.
C14_DiagnosticsShowAvailable ==
    /\ (last.op = "exitOut.printLastNEvents" /\ last.fetch = "ok")
          => ShowsAvailable(last.events, EventsRequested)
    /\ (last.op = "exitOut.printLastNTasks" /\ last.tasks.outcome /= "error")
          => ShowsAvailable(last.tasks, TasksRequested)

\* C16 as stated (first variant): when checkDeployments returns success it
\* has called waitForDeployment for every deployment of the list it ranged
\* over that is not COMPLETED.
C16_WaitsOnEveryNotCompleted ==
    (phaseA = "ok" /\ pc = "checkPendingCount")
        => \A i \in 1..Len(ranged.list) :
              ranged.list[i].rolloutState /= "COMPLETED"
                  => ranged.list[i].id \in ranged.waited

\* C16 amended (first variant): checkDeployments waits on the deployments of
\* the list that are IN_PROGRESS and on no other: the deployment a poll loop
\* waits for is IN_PROGRESS in that list, and when checkDeployments returns
\* success it has waited for exactly the IN_PROGRESS ones; a FAILED
\* deployment is skipped.
C16_WaitsOnInProgressOnly ==
    /\ pc = "waitForDeployment"
          => /\ ranged.at \in 1..Len(ranged.list)
             /\ ranged.list[ranged.at].id = deploymentId
             /\ ranged.list[ranged.at].rolloutState = "IN_PROGRESS"
             /\ deploymentId \in ranged.waited
    /\ (phaseA = "ok" /\ pc = "checkPendingCount")
          => ranged.waited = {ranged.list[i].id : i \in
                                {j \in 1..Len(ranged.list) :
                                    ranged.list[j].rolloutState = "IN_PROGRESS"}}

C16_Witness ==
    /\ phaseA = "ok"
    /\ pc = "checkPendingCount"
    /\ Len(ranged.list) = 2
    /\ ranged.list[1].rolloutState = "FAILED"
    /\ ranged.list[2].rolloutState = "IN_PROGRESS"
    /\ ranged.waited = {ranged.list[2].id}

\* C18: the cached snapshot changes only in a step whose DescribeServices
\* call succeeded.
C18_CacheOnlyReplacedByRefresh ==
    [][currentOutput' /= currentOutput => last'.fetch = "ok"]_vars

\* The deployments of the cached snapshot that have the tracked id.
WithTrackedId == {i \in 1..Len(currentOutput.deployments) :
                    currentOutput.deployments[i].id = deploymentId}

\* C19: checkDeployments takes the id of the first PRIMARY deployment of the
\* snapshot it fetched; no step of the poll loop changes the tracked id; a
\* tick decides on the deployment that has the tracked id, wherever it is in
\* the list and whichever deployment is PRIMARY: success when it is
\* COMPLETED, another round when it is not, "deployment disappeared" when no
\* deployment has the id.
C19_TrackedByIdOnly ==
    /\ []( (last.op = "checkDeployments" /\ last.fetch = "ok")
            => LET primary == {i \in 1..Len(currentOutput.deployments) :
                                  currentOutput.deployments[i].status = "PRIMARY"}
               IN  IF primary = {} THEN deploymentId = ""
                   ELSE \E i \in primary :
                          /\ \A j \in primary : i <= j
                          /\ deploymentId = currentOutput.deployments[i].id )
    /\ [][pc = "waitForDeployment" => deploymentId' = deploymentId]_vars
    /\ []( (last.op = "waitForDeployment.tick" /\ last.fetch = "ok")
            => IF \E i \in WithTrackedId :
                      currentOutput.deployments[i].rolloutState = "COMPLETED"
               THEN phaseA = "ok" /\ err = "" /\ pc = "checkPendingCount"
               ELSE IF WithTrackedId /= {}
               THEN phaseA = "waiting" /\ err = "" /\ pc = "waitForDeployment"
               ELSE err = "deployment disappeared" /\ pc = "exitOut" )

\* The tracked deployment has moved to the second place and another
\* deployment is PRIMARY and COMPLETED: the loop still waits for the tracked one.
C19_Witness ==
    /\ last.op = "waitForDeployment.tick"
    /\ pc = "waitForDeployment"
    /\ Len(currentOutput.deployments) = 2
    /\ currentOutput.deployments[2].id = deploymentId
    /\ currentOutput.deployments[2].status = "ACTIVE"
    /\ currentOutput.deployments[1].status = "PRIMARY"
    /\ currentOutput.deployments[1].rolloutState = "COMPLETED"

\* C20: under FairSpec each poll loop ends; when every tick of Phase A finds
\* the tracked deployment present and not COMPLETED, Phase A returns its
\* timeout error, after which the diagnostics run and the process exits 1;
\* when every tick of Phase B finds unequal counts, Phase B returns its
\* timeout error.
C20_PollLoopsTerminate ==
    /\ (pc = "waitForDeployment") ~> (pc /= "waitForDeployment")
    /\ (pc = "waitForRunningToMatchDesired") ~> (pc /= "waitForRunningToMatchDesired")
    /\ [](last.op = "waitForDeployment.tick" => pc = "waitForDeployment")
          => ((pc = "waitForDeployment")
                ~> (err = "timeouted out waiting for deployment to happen"))
    /\ [](last.op = "waitForRunningToMatchDesired.tick"
            => pc = "waitForRunningToMatchDesired")
          => ((pc = "waitForRunningToMatchDesired")
                ~> (err = "timeouted out waiting for desired to match running"))
    /\ (err = "timeouted out waiting for deployment to happen")
          ~> (pc = "exited" /\ exitCode = ExitFailure
                /\ last.op = "exitOut.printLastNTasks")

\* Phase A has timed out after a tick that found the deployment still in
\* progress, and the process has exited 1.
C20_Witness ==
    /\ pc = "exited"
    /\ exitCode = ExitFailure
    /\ err = "timeouted out waiting for deployment to happen"
    /\ phaseA = "failed"

\* The count check fetched a snapshot with equal counts.
CountCheckSawEqualCounts ==
    /\ last.op = "checkPendingCount"
    /\ last.fetch = "ok"
    /\ currentOutput.desiredCount = currentOutput.runningCount

\* The target-group check fetched a snapshot with a load balancer and found
\* a target of its group that is not healthy.
TargetCheckSawUnhealthy ==
    /\ last.op = "checkTargetGroup"
    /\ last.fetch = "ok"
    /\ last.health
    /\ \E i \in 1..Len(last.states) : last.states[i] /= "healthy"

\* C21: a count check that fetched equal counts returns at once and main
\* goes on to the target-group check; a count check that has to wait starts
\* its poll loop with new tickers; a target-group check that found a target
\* not healthy sends main, after a sleep of -check seconds, back to the count
\* check with no ticker left and no error.  So in a run in which every count
\* check fetches equal counts and every target-group check finds a target not
\* healthy, the process, once Phase A has succeeded, only alternates between
\* the two checks: it never exits and no error (no timeout) is raised.
C21_PhaseCUnbounded ==
    /\ [](CountCheckSawEqualCounts
            => /\ pc = "checkTargetGroup" /\ phaseB = "ok"
               /\ err = "" /\ exitCode = -1
               /\ checkTimer = NoTicker /\ timeout = NoTicker)
    /\ []((last.op = "checkPendingCount" /\ pc = "waitForRunningToMatchDesired")
            => /\ checkTimer = [period |-> CheckTimerSeconds,
                                left |-> CheckTimerSeconds, ch |-> FALSE]
               /\ timeout = [period |-> TimeoutSeconds,
                              left |-> TimeoutSeconds, ch |-> FALSE]
               /\ elapsed = 0)
    /\ [](TargetCheckSawUnhealthy
            => /\ pc = "checkPendingCount" /\ phaseC = "notConverged"
               /\ err = "" /\ exitCode = -1
               /\ last.slept = flagCheckInterval
               /\ checkTimer = NoTicker /\ timeout = NoTicker /\ elapsed = 0)
    /\ ( /\ [](last.op = "checkPendingCount" => CountCheckSawEqualCounts)
         /\ [](last.op = "checkTargetGroup" => TargetCheckSawUnhealthy) )
          => [](phaseA = "ok" => /\ pc \in {"checkPendingCount", "checkTargetGroup"}
                                 /\ exitCode = -1
                                 /\ err = "")

\* Two rounds of the main loop: both target-group checks found the target
\* not healthy and main is back at the count check.
C21_Witness ==
    /\ RunOps = <<"newSession", "describeServiceRaw", "refresh", "checkDeployments",
                  "checkPendingCount", "checkTargetGroup",
                  "checkPendingCount", "checkTargetGroup">>
    /\ run[6].secs = flagCheckInterval
    /\ TargetCheckSawUnhealthy
    /\ pc = "checkPendingCount"
    /\ exitCode = -1

=============================================================================
